---- MODULE Spec2Model ----
(***************************************************************************)
(* Model of the brainruck interpreter (src/src/main.rs): the Tape, the     *)
(* dispatch loop of Interpreter::run and the two bracket-matching scans.   *)
(* Program and tape indices are 0-based as in the source; TLA+ sequences   *)
(* are 1-based, so element k of a Rust slice s is s[k + 1] here.           *)
(***************************************************************************)
EXTENDS Integers, Sequences, FiniteSets, TLC

VARIABLES code, i, tape, input, output, status, prev, maxHead, touched

(* prev, maxHead and touched record the history of the run: the index of   *)
(* the byte dispatched last, the largest head reached, and the cells that  *)
(* were under the head when a `+`, `-` or `,` was dispatched.              *)
vars == <<code, i, tape, input, output, status, prev, maxHead, touched>>

(* ---------------------------------------------------------------- bounds *)
MaxLen == 4
MaxTape == 3
MaxOut == 2
MaxIn == 1
RunFuel == 64

(* The eight instruction bytes and one representative of every other byte. *)
Instr == {">", "<", "+", "-", ".", ",", "[", "]"}
Other == {"x"}
Bytes == Instr \cup Other
InBytes == {1, 255}

(* An item of the input stream that makes the read fail with an error      *)
(* other than UnexpectedEof; the end of the stream is UnexpectedEof.       *)
ReadErr == -1

SeqsUpTo(S, n) == UNION {[1..k -> S] : k \in 0..n}

(* ------------------------------------------------------------------ Tape *)
TapeNew == [head |-> 0, cells |-> <<0>>]

(* Variant: the growth test compares head with the length itself.         *)
TapeRight_lenTest(t) ==
    LET grown == IF t.head = Len(t.cells) THEN Append(t.cells, 0) ELSE t.cells
    IN [head |-> t.head + 1, cells |-> grown]

(* Variant: a cell is appended on every move to the right.                 *)
TapeRight_alwaysPush(t) ==
    [head |-> t.head + 1, cells |-> Append(t.cells, 0)]

(* Variant: the appended cell is a copy of the cell being left.            *)
TapeRight_pushCopy(t) ==
    LET grown == IF t.head = Len(t.cells) - 1
                 THEN Append(t.cells, t.cells[t.head + 1])
                 ELSE t.cells
    IN [head |-> t.head + 1, cells |-> grown]

TapeRight(t) ==
    LET grown == IF t.head = Len(t.cells) - 1 THEN Append(t.cells, 0) ELSE t.cells
    IN [head |-> t.head + 1, cells |-> grown]

(* Variant: the head saturates at 0 instead of aborting.                   *)
TapeLeft_saturating(t) ==
    IF t.head = 0
    THEN [panic |-> FALSE, tape |-> t]
    ELSE [panic |-> FALSE, tape |-> [t EXCEPT !.head = @ - 1]]

(* Variant: the last cell is dropped when the head leaves it.              *)
TapeLeft_shrinks(t) ==
    IF t.head = 0
    THEN [panic |-> TRUE, tape |-> t]
    ELSE [panic |-> FALSE,
          tape |-> [head |-> t.head - 1,
                    cells |-> IF t.head = Len(t.cells) - 1
                              THEN SubSeq(t.cells, 1, Len(t.cells) - 1)
                              ELSE t.cells]]

TapeLeft(t) ==
    IF t.head = 0
    THEN [panic |-> TRUE, tape |-> t]
    ELSE [panic |-> FALSE, tape |-> [t EXCEPT !.head = @ - 1]]

wrapping_add(v) == (v + 1) % 256

(* Variant: saturating_sub in place of wrapping_sub.                       *)
saturating_sub(v) == IF v = 0 THEN 0 ELSE v - 1

wrapping_sub(v) == (v + 255) % 256

TapeIncrement(t) == [t EXCEPT !.cells[t.head + 1] = wrapping_add(@)]

TapeDecrement(t) == [t EXCEPT !.cells[t.head + 1] = wrapping_sub(@)]

(* Variant: the byte written is the first cell, not the cell at head.      *)
TapeOutput_firstCell(t, out, fail) ==
    IF fail
    THEN [err |-> TRUE, out |-> out]
    ELSE [err |-> FALSE, out |-> Append(out, t.cells[1])]

(* writer.write_all of the one byte at head: the sink either takes it or   *)
(* reports an error.                                                       *)
TapeOutput(t, out, fail) ==
    IF fail
    THEN [err |-> TRUE, out |-> out]
    ELSE [err |-> FALSE, out |-> Append(out, t.cells[t.head + 1])]

(* Variant: end of input leaves the cell as it was.                        *)
TapeInput_eofKeeps(t, inp) ==
    IF inp = <<>>
    THEN [err |-> FALSE, tape |-> t, inp |-> inp]
    ELSE IF Head(inp) = ReadErr
    THEN [err |-> TRUE, tape |-> t, inp |-> Tail(inp)]
    ELSE [err |-> FALSE, tape |-> [t EXCEPT !.cells[t.head + 1] = Head(inp)],
          inp |-> Tail(inp)]

(* Variant: end of input stores -1 (255) in the cell.                      *)
TapeInput_eofMinusOne(t, inp) ==
    IF inp = <<>>
    THEN [err |-> FALSE, tape |-> [t EXCEPT !.cells[t.head + 1] = 255], inp |-> inp]
    ELSE IF Head(inp) = ReadErr
    THEN [err |-> TRUE, tape |-> t, inp |-> Tail(inp)]
    ELSE [err |-> FALSE, tape |-> [t EXCEPT !.cells[t.head + 1] = Head(inp)],
          inp |-> Tail(inp)]

(* reader.read_exact into the one byte at head: UnexpectedEof at the end   *)
(* of the stream (cell := 0, Ok), any other error (propagated), or a byte. *)
TapeInput(t, inp) ==
    IF inp = <<>>
    THEN [err |-> FALSE, tape |-> [t EXCEPT !.cells[t.head + 1] = 0], inp |-> inp]
    ELSE IF Head(inp) = ReadErr
    THEN [err |-> TRUE, tape |-> t, inp |-> Tail(inp)]
    ELSE [err |-> FALSE, tape |-> [t EXCEPT !.cells[t.head + 1] = Head(inp)],
          inp |-> Tail(inp)]

TapeIsZero(t) == t.cells[t.head + 1] = 0

(* ------------------------------------------------------ bracket matching *)
Err == [ok |-> FALSE, val |-> 0]

Ok(v) == [ok |-> TRUE, val |-> v]

(* The loop of matching_for_left_paren over code[(current_index + 1)..]    *)
(* .iter().enumerate(): k is the enumerate index, relative to the slice.   *)
RECURSIVE LeftScan(_, _, _, _)
LeftScan(c, current_index, k, encountered) ==
    IF current_index + 1 + k >= Len(c)
    THEN Err
    ELSE LET character == c[current_index + 1 + k + 1]
         IN CASE character = "[" -> LeftScan(c, current_index, k + 1, encountered + 1)
              [] character = "]" ->
                    IF encountered = 0
                    THEN Ok(k)
                    ELSE LeftScan(c, current_index, k + 1, encountered - 1)
              [] OTHER -> LeftScan(c, current_index, k + 1, encountered)

(* Variant: the index just past the matching `]` is returned.              *)
matching_for_left_paren_past(current_index, c) ==
    LET r == LeftScan(c, current_index, 0, 0)
    IN IF r.ok THEN Ok(current_index + 1 + r.val + 1) ELSE r

matching_for_left_paren(current_index, c) == LeftScan(c, current_index, 0, 0)

(* The loop of matching_for_right_paren over code[..current_index]         *)
(* .iter().enumerate().rev(): k is the index into the whole program.       *)
RECURSIVE RightScan(_, _, _)
RightScan(c, k, encountered) ==
    IF k < 0
    THEN Err
    ELSE LET character == c[k + 1]
         IN CASE character = "]" -> RightScan(c, k - 1, encountered + 1)
              [] character = "[" ->
                    IF encountered = 0
                    THEN Ok(k)
                    ELSE RightScan(c, k - 1, encountered - 1)
              [] OTHER -> RightScan(c, k - 1, encountered)

(* Variant: .iter().rev().enumerate(), which numbers the bytes from the    *)
(* `]` backwards instead of from the start of the program.                 *)
matching_for_right_paren_revFirst(current_index, c) ==
    LET r == RightScan(c, current_index - 1, 0)
    IN IF r.ok THEN Ok(current_index - 1 - r.val) ELSE r

matching_for_right_paren(current_index, c) == RightScan(c, current_index - 1, 0)

(* ------------------------------------------------- one dispatch, as data *)
(* The interpreter's state as a record, so that one iteration of the loop  *)
(* in run is a function the actions and whole-run operators share.         *)
State == [i |-> i, tape |-> tape, input |-> input, output |-> output,
          status |-> status]

Advance(s) == [s EXCEPT !.i = @ + 1]

DoRight(s) == Advance([s EXCEPT !.tape = TapeRight(s.tape)])

DoLeft(s) ==
    LET r == TapeLeft(s.tape)
    IN IF r.panic
       THEN [s EXCEPT !.status = "panic"]
       ELSE Advance([s EXCEPT !.tape = r.tape])

DoIncrement(s) == Advance([s EXCEPT !.tape = TapeIncrement(s.tape)])

DoDecrement(s) == Advance([s EXCEPT !.tape = TapeDecrement(s.tape)])

(* Variant: the result of the write is dropped (no `?`).                   *)
DoOutput_ignoresErr(s, fail) ==
    LET r == TapeOutput(s.tape, s.output, fail)
    IN Advance([s EXCEPT !.output = r.out])

(* Variant: a failed write ends the run as if it had completed.            *)
DoOutput_errIsOk(s, fail) ==
    LET r == TapeOutput(s.tape, s.output, fail)
    IN IF r.err
       THEN [s EXCEPT !.status = "ok"]
       ELSE Advance([s EXCEPT !.output = r.out])

DoOutput(s, fail) ==
    LET r == TapeOutput(s.tape, s.output, fail)
    IN IF r.err
       THEN [s EXCEPT !.status = "ioerr"]
       ELSE Advance([s EXCEPT !.output = r.out])

DoInput(s) ==
    LET r == TapeInput(s.tape, s.input)
    IN IF r.err
       THEN [s EXCEPT !.status = "ioerr", !.input = r.inp]
       ELSE Advance([s EXCEPT !.tape = r.tape, !.input = r.inp])

(* Variant: the match is looked up whether or not the cell is zero.        *)
DoLeftParen_eager(c, s) ==
    LET r == matching_for_left_paren(s.i, c)
    IN IF ~r.ok
       THEN [s EXCEPT !.status = "invalid"]
       ELSE IF TapeIsZero(s.tape)
       THEN Advance([s EXCEPT !.i = r.val])
       ELSE Advance(s)

(* Variant: a missing match is ignored and the run goes on.                *)
DoLeftParen_swallow(c, s) ==
    IF TapeIsZero(s.tape)
    THEN LET r == matching_for_left_paren(s.i, c)
         IN IF r.ok
            THEN Advance([s EXCEPT !.i = r.val])
            ELSE Advance(s)
    ELSE Advance(s)

DoLeftParen(c, s) ==
    IF TapeIsZero(s.tape)
    THEN LET r == matching_for_left_paren(s.i, c)
         IN IF r.ok
            THEN Advance([s EXCEPT !.i = r.val])
            ELSE [s EXCEPT !.status = "invalid"]
    ELSE Advance(s)

(* Variant: `]` counts the cell down before testing it.                    *)
DoRightParen_countsDown(c, s) ==
    LET t == TapeDecrement(s.tape)
    IN IF ~TapeIsZero(t)
       THEN LET r == matching_for_right_paren(s.i, c)
            IN IF r.ok
               THEN Advance([s EXCEPT !.i = r.val, !.tape = t])
               ELSE [s EXCEPT !.status = "invalid"]
       ELSE Advance([s EXCEPT !.tape = t])

DoRightParen(c, s) ==
    IF ~TapeIsZero(s.tape)
    THEN LET r == matching_for_right_paren(s.i, c)
         IN IF r.ok
            THEN Advance([s EXCEPT !.i = r.val])
            ELSE [s EXCEPT !.status = "invalid"]
    ELSE Advance(s)

(* Variant: an unknown byte is rejected as invalid code.                   *)
DoNoop_rejects(s) == [s EXCEPT !.status = "invalid"]

DoNoop(s) == Advance(s)

(* One iteration of the loop of run, and the whole run from a state, for   *)
(* an environment whose output sink never fails.                           *)
Step(c, s) ==
    IF s.i = Len(c)
    THEN [s EXCEPT !.status = "ok"]
    ELSE LET b == c[s.i + 1]
         IN CASE b = ">" -> DoRight(s)
              [] b = "<" -> DoLeft(s)
              [] b = "+" -> DoIncrement(s)
              [] b = "-" -> DoDecrement(s)
              [] b = "." -> DoOutput(s, FALSE)
              [] b = "," -> DoInput(s)
              [] b = "[" -> DoLeftParen(c, s)
              [] b = "]" -> DoRightParen(c, s)
              [] OTHER -> DoNoop(s)

RECURSIVE RunFrom(_, _, _)
RunFrom(c, s, fuel) ==
    IF s.status # "running" \/ fuel = 0
    THEN s
    ELSE RunFrom(c, Step(c, s), fuel - 1)

InterpreterNew(inp) ==
    [i |-> 0, tape |-> TapeNew, input |-> inp, output |-> <<>>,
     status |-> "running"]

run(c, inp) == RunFrom(c, InterpreterNew(inp), RunFuel)

(* --------------------------------------------------------------- actions *)
Running == status = "running"

AtByte(b) == Running /\ i < Len(code) /\ code[i + 1] = b

Set(s) ==
    /\ i' = s.i
    /\ tape' = s.tape
    /\ input' = s.input
    /\ output' = s.output
    /\ status' = s.status
    /\ code' = code
    /\ prev' = i
    /\ maxHead' = IF s.tape.head > maxHead THEN s.tape.head ELSE maxHead
    /\ touched' = IF code[i + 1] \in {"+", "-", ","}
                  THEN touched \cup {tape.head}
                  ELSE touched

Init ==
    /\ code \in SeqsUpTo(Bytes, MaxLen)
    /\ i = 0
    /\ tape = TapeNew
    /\ input \in SeqsUpTo(InBytes \cup {ReadErr}, MaxIn)
    /\ output = <<>>
    /\ status = "running"
    /\ prev = -1
    /\ maxHead = 0
    /\ touched = {}

Finish ==
    /\ Running
    /\ i = Len(code)
    /\ status' = "ok"
    /\ UNCHANGED <<code, i, tape, input, output, prev, maxHead, touched>>

Right ==
    /\ AtByte(">")
    /\ (tape.head = Len(tape.cells) - 1 => Len(tape.cells) < MaxTape)
    /\ Set(DoRight(State))

Left ==
    /\ AtByte("<")
    /\ Set(DoLeft(State))

Increment ==
    /\ AtByte("+")
    /\ Set(DoIncrement(State))

Decrement ==
    /\ AtByte("-")
    /\ Set(DoDecrement(State))

Output ==
    /\ AtByte(".")
    /\ \E fail \in BOOLEAN :
          /\ (~fail => Len(output) < MaxOut)
          /\ Set(DoOutput(State, fail))

Input ==
    /\ AtByte(",")
    /\ Set(DoInput(State))

LeftParen ==
    /\ AtByte("[")
    /\ Set(DoLeftParen(code, State))

RightParen ==
    /\ AtByte("]")
    /\ Set(DoRightParen(code, State))

Noop ==
    /\ Running
    /\ i < Len(code)
    /\ code[i + 1] \notin Instr
    /\ Set(DoNoop(State))

Next ==
    \/ Finish
    \/ Right
    \/ Left
    \/ Increment
    \/ Decrement
    \/ Output
    \/ Input
    \/ LeftParen
    \/ RightParen
    \/ Noop

Spec == Init /\ [][Next]_vars

(* run is a sequential loop: while an iteration is possible, one happens.  *)
FairSpec == Spec /\ WF_vars(Next)

TypeOK ==
    /\ Len(code) <= MaxLen
    /\ i \in 0..Len(code)
    /\ tape.head \in 0..(Len(tape.cells) - 1)
    /\ \A k \in 1..Len(tape.cells) : tape.cells[k] \in 0..255
    /\ status \in {"running", "ok", "panic", "invalid", "ioerr"}
    /\ prev \in -1..(Len(code) - 1)
    /\ maxHead \in 0..(Len(tape.cells) - 1)
    /\ touched \subseteq 0..(Len(tape.cells) - 1)

(* ------------------------------------------- what "matching" means *)
(* Nesting balance of the program bytes a..b: opening minus closing.       *)
Balance(c, a, b) ==
    Cardinality({k \in a..b : c[k + 1] = "["})
        - Cardinality({k \in a..b : c[k + 1] = "]"})

(* The absolute indices of the `]` that closes the `[` at p (none or one). *)
CloseOf(c, p) ==
    {m \in (p + 1)..(Len(c) - 1) :
        /\ c[m + 1] = "]"
        /\ Balance(c, p + 1, m - 1) = 0
        /\ \A k \in (p + 1)..(m - 1) : Balance(c, p + 1, k) >= 0}

(* The absolute indices of the `[` that opens the `]` at p (none or one).  *)
OpenOf(c, p) ==
    {m \in 0..(p - 1) :
        /\ c[m + 1] = "["
        /\ Balance(c, m + 1, p - 1) = 0
        /\ \A k \in (m + 1)..(p - 1) : Balance(c, k, p - 1) <= 0}

WellBracketed(c) ==
    /\ Balance(c, 0, Len(c) - 1) = 0
    /\ \A k \in 0..(Len(c) - 1) : Balance(c, 0, k) >= 0

FrameTape == tape' = tape /\ input' = input /\ output' = output

(* ---------------------------------------------------------------- claims *)

(* C1: dispatching `[` at any cursor p with a zero cell and a matching `]` *)
(* at absolute index m moves the cursor so that the next instruction       *)
(* dispatched is m + 1; with a nonzero cell the next one is p + 1.         *)
C1_ForwardJump ==
    [][AtByte("[") =>
         IF TapeIsZero(tape)
         THEN \A m \in CloseOf(code, i) : status' = "running" /\ i' = m + 1
         ELSE status' = "running" /\ i' = i + 1]_vars

(* C2: dispatching `]` at p with a nonzero cell and a matching `[` at      *)
(* absolute index m < p makes the next instruction dispatched m + 1 (the   *)
(* `[` is not re-evaluated); with a zero cell the next one is p + 1.       *)
C2_BackwardJump ==
    [][AtByte("]") =>
         IF ~TapeIsZero(tape)
         THEN \A m \in OpenOf(code, i) : status' = "running" /\ i' = m + 1
         ELSE status' = "running" /\ i' = i + 1]_vars

(* A backward jump has just happened: the `]` at prev sent the cursor to   *)
(* just after its `[`, across at least one byte of loop body.              *)
C2_Witness ==
    /\ status = "running"
    /\ prev >= 0
    /\ code[prev + 1] = "]"
    /\ ~TapeIsZero(tape)
    /\ i < prev
    /\ i - 1 \in OpenOf(code, prev)

(* C3: the invalid-program error is raised exactly by dispatching a `[`    *)
(* without matching `]` on a zero cell or a `]` without matching `[` on a  *)
(* nonzero cell, and never by a well-bracketed program.                    *)
C3_Trigger ==
    \/ AtByte("[") /\ TapeIsZero(tape) /\ CloseOf(code, i) = {}
    \/ AtByte("]") /\ ~TapeIsZero(tape) /\ OpenOf(code, i) = {}

C3_LazyInvalid ==
    /\ [][(status' = "invalid") <=> C3_Trigger]_vars
    /\ [](WellBracketed(code) => status # "invalid")

(* An unmatched `]` was dispatched on a zero cell without an error and the *)
(* run went on to end normally.                                            *)
C3_Witness ==
    /\ status = "ok"
    /\ \E p \in 0..(Len(code) - 1) : code[p + 1] = "]" /\ OpenOf(code, p) = {}
    /\ prev >= 0
    /\ code[prev + 1] = "]"
    /\ OpenOf(code, prev) = {}

(* C4 as stated: a dispatched `[` with no matching `]` fails with the      *)
(* invalid-program error whatever the current cell holds.                  *)
C4_AlwaysFails ==
    [][(AtByte("[") /\ CloseOf(code, i) = {}) => status' = "invalid"]_vars

(* C4 amended: a dispatched `[` with no matching `]` fails with the        *)
(* invalid-program error when the current cell is zero, and falls through  *)
(* to p + 1 without error when the current cell is nonzero.                *)
C4_FailsOnZeroOnly ==
    [][(AtByte("[") /\ CloseOf(code, i) = {}) =>
         IF TapeIsZero(tape)
         THEN status' = "invalid" /\ i' = i /\ FrameTape
         ELSE status' = "running" /\ i' = i + 1 /\ FrameTape]_vars

(* An unmatched `[` was dispatched on a nonzero cell and fell through.     *)
C4_Witness ==
    /\ status = "running"
    /\ prev >= 0
    /\ code[prev + 1] = "["
    /\ CloseOf(code, prev) = {}
    /\ ~TapeIsZero(tape)
    /\ i = prev + 1

(* C5: inserting an ignored byte anywhere in a program changes neither the *)
(* outcome, nor the output, nor the final tape and head of its run on the  *)
(* same input (compared whenever both runs end within RunFuel dispatches). *)
InsertByte(c, q, b) == SubSeq(c, 1, q) \o <<b>> \o SubSeq(c, q + 1, Len(c))

C5_IgnoredBytesInterleave ==
    (status = "running" /\ prev = -1) =>
        \A q \in 0..Len(code) : \A b \in Other :
            LET r1 == run(code, input)
                r2 == run(InsertByte(code, q, b), input)
            IN (r1.status # "running" /\ r2.status # "running") =>
                  /\ r1.status = r2.status
                  /\ r1.output = r2.output
                  /\ r1.tape = r2.tape

(* C6: the head is always a valid index into the cells.                    *)
C6_HeadValid == 0 <= tape.head /\ tape.head < Len(tape.cells)

(* `>` has just moved the head onto a freshly appended last cell.          *)
C6_Witness ==
    /\ status = "running"
    /\ prev >= 0
    /\ code[prev + 1] = ">"
    /\ tape.head = 2
    /\ Len(tape.cells) = 3

(* C7: `<` at head 0 aborts with the tape untouched and nothing is         *)
(* dispatched afterwards; `<` at head > 0 moves the head one to the left.  *)
C7_LeftBoundary ==
    [][/\ AtByte("<") =>
            IF tape.head = 0
            THEN status' = "panic" /\ i' = i /\ FrameTape
            ELSE /\ status' = "running"
                 /\ i' = i + 1
                 /\ tape' = [tape EXCEPT !.head = tape.head - 1]
                 /\ input' = input
                 /\ output' = output
       /\ status = "panic" => UNCHANGED vars]_vars

(* The run has aborted on a `<` dispatched with the head at 0.             *)
C7_Witness ==
    /\ status = "panic"
    /\ code[i + 1] = "<"
    /\ prev = i
    /\ tape.head = 0

(* C8: `+` and `-` are +1 and -1 modulo 256 on the cell at head and touch  *)
(* nothing else; in a program of `+` and `-` only, once the first i bytes  *)
(* are dispatched the cell holds (number of `+` minus number of `-`) mod   *)
(* 256 and the run has not failed.                                         *)
Count(c, n, b) == Cardinality({k \in 0..(n - 1) : c[k + 1] = b})

ArithPrefix(c, n) == \A k \in 0..(n - 1) : c[k + 1] \in {"+", "-"}

C8_Sum ==
    ArithPrefix(code, Len(code)) =>
        /\ status \in {"running", "ok"}
        /\ tape = [head |-> 0,
                   cells |-> <<(Count(code, i, "+") + 255 * Count(code, i, "-")) % 256>>]

C8_Step ==
    /\ AtByte("+") =>
          /\ tape' = [tape EXCEPT !.cells[tape.head + 1] = IF @ = 255 THEN 0 ELSE @ + 1]
          /\ status' = "running" /\ i' = i + 1 /\ input' = input /\ output' = output
    /\ AtByte("-") =>
          /\ tape' = [tape EXCEPT !.cells[tape.head + 1] = IF @ = 0 THEN 255 ELSE @ - 1]
          /\ status' = "running" /\ i' = i + 1 /\ input' = input /\ output' = output

C8_WrappingArithmetic == [](C8_Sum) /\ [][C8_Step]_vars

(* After `-` took the cell from 0 to 255, a `+` has taken it back to 0.    *)
C8_Witness ==
    /\ status = "running"
    /\ i = 2
    /\ prev = 1
    /\ code[1] = "-"
    /\ code[2] = "+"
    /\ tape.cells = <<0>>

(* C9: `,` at end of input zeroes the cell at head without error; `,` with *)
(* a byte b available stores b and consumes exactly that byte; both leave  *)
(* the head and every other cell alone and the run continues.              *)
C9_Input ==
    [][AtByte(",") =>
         IF input = <<>>
         THEN /\ tape' = [tape EXCEPT !.cells[tape.head + 1] = 0]
              /\ input' = <<>>
              /\ status' = "running" /\ i' = i + 1 /\ output' = output
         ELSE Head(input) \in 0..255 =>
              /\ tape' = [tape EXCEPT !.cells[tape.head + 1] = Head(input)]
              /\ input' = Tail(input)
              /\ status' = "running" /\ i' = i + 1 /\ output' = output]_vars

(* `+,` on an exhausted input: the cell held 1 and `,` has made it 0.      *)
C9_Witness ==
    /\ status = "running"
    /\ i = 2
    /\ prev = 1
    /\ code[1] = "+"
    /\ code[2] = ","
    /\ input = <<>>
    /\ tape.cells = <<0>>

(* C10: the tape never shrinks; `>` at the last cell appends one zero cell *)
(* and advances, `>` elsewhere only advances, `>` never fails, and no      *)
(* other instruction changes the length.                                   *)
C10_Growth ==
    [][/\ Len(tape'.cells) >= Len(tape.cells)
       /\ AtByte(">") =>
            /\ status' = "running"
            /\ i' = i + 1
            /\ tape'.head = tape.head + 1
            /\ tape'.cells = IF tape.head = Len(tape.cells) - 1
                             THEN Append(tape.cells, 0)
                             ELSE tape.cells
       /\ ~AtByte(">") => Len(tape'.cells) = Len(tape.cells)]_vars

(* `>>` has appended two zero cells, one per move.                         *)
C10_Witness ==
    /\ status = "running"
    /\ i = 2
    /\ prev = 1
    /\ code[1] = ">"
    /\ code[2] = ">"
    /\ tape = [head |-> 2, cells |-> <<0, 0, 0>>]

(* C11: a program made only of balanced `[`/`]` pairs, run on the initial  *)
(* tape, ends normally with the tape and head as they were, and no byte    *)
(* lying strictly inside a loop is ever dispatched (every `[` it reaches   *)
(* finds a zero cell, so every loop body is skipped).                      *)
BalancedBrackets(c) ==
    /\ \A k \in 1..Len(c) : c[k] \in {"[", "]"}
    /\ WellBracketed(c)

InsideLoop(c, k) == \E p \in 0..(k - 1) : \E m \in CloseOf(c, p) : k < m

C11_BalancedSkipped ==
    /\ BalancedBrackets(code) ~> (status = "ok" /\ tape = TapeNew)
    /\ [](BalancedBrackets(code) =>
             /\ tape = TapeNew
             /\ status \in {"running", "ok"}
             /\ (prev >= 0 => ~InsideLoop(code, prev)))

(* C12: the program of N `>` followed by N `<` never fails and can always  *)
(* take its next step until it has ended normally; it ends with head 0 and *)
(* exactly N + 1 zero cells, and the tape never gets shorter on the way.   *)
UpDown(c) ==
    /\ Len(c) % 2 = 0
    /\ \A k \in 1..Len(c) : c[k] = IF 2 * k <= Len(c) THEN ">" ELSE "<"

C12_State ==
    UpDown(code) =>
        LET N == Len(code) \div 2
        IN /\ status \in {"running", "ok"}
           /\ tape.head = IF i <= N THEN i ELSE 2 * N - i
           /\ tape.cells = [k \in 1..(1 + IF i <= N THEN i ELSE N) |-> 0]
           /\ (status = "ok" => i = 2 * N /\ tape.head = 0 /\ Len(tape.cells) = N + 1)
           /\ (status = "running" => ENABLED Next)

C12_Step ==
    UpDown(code) =>
        /\ Len(tape'.cells) >= Len(tape.cells)
        /\ \/ i' = i + 1 /\ status' = "running"
           \/ i' = i /\ i = Len(code) /\ status' = "ok"

C12_GrowAndReturn == [](C12_State) /\ [][C12_Step]_vars

(* `>><<` has ended normally, head back at 0 on a tape of three zeros.     *)
C12_Witness ==
    /\ code = <<">", ">", "<", "<">>
    /\ status = "ok"
    /\ tape = [head |-> 0, cells |-> <<0, 0, 0>>]

(* C13: the program `,.` on an input starting with byte b ends normally    *)
(* with output exactly <<b>>, and on an empty input with output <<0>>      *)
(* (the output sink working); whenever it has ended normally its output is *)
(* the one byte that `,` stored.                                           *)
C13_RoundTrip ==
    code = <<",", ".">> =>
        /\ prev = -1 =>
              LET r == run(code, input)
                  b == IF input = <<>> THEN 0 ELSE Head(input)
              IN b \in 0..255 => r.status = "ok" /\ r.output = <<b>>
        /\ status = "ok" => output = <<tape.cells[1]>> /\ i = 2
        /\ (prev = 0 /\ status = "running") =>
              /\ output = <<>>
              /\ input = <<>> => tape.cells[1] \in {0} \cup InBytes

(* `,.` has read the byte 255 and ended normally having written it.        *)
C13_Witness ==
    /\ code = <<",", ".">>
    /\ status = "ok"
    /\ output = <<255>>

(* C14: a `.` either writes its byte or, the sink failing, ends the run    *)
(* with the I/O error and nothing written; a `,` whose read fails with an  *)
(* error other than end of input ends the run with the I/O error and the   *)
(* tape untouched; after an I/O error nothing is dispatched or written.    *)
C14_IoFailureAborts ==
    [][/\ AtByte(".") =>
            \/ status' = "ioerr" /\ i' = i /\ output' = output /\ tape' = tape
            \/ status' = "running" /\ i' = i + 1 /\ Len(output') = Len(output) + 1
       /\ (AtByte(",") /\ input # <<>> /\ Head(input) = ReadErr) =>
            status' = "ioerr" /\ i' = i /\ output' = output /\ tape' = tape
       /\ status = "ioerr" => UNCHANGED vars]_vars

(* The sink failed on a `.` after an earlier `.` had written a byte.       *)
C14_Witness ==
    /\ status = "ioerr"
    /\ code[i + 1] = "."
    /\ prev = i
    /\ Len(output) = 1

(* C15: dispatching a byte that is not an instruction changes nothing but  *)
(* the cursor, which advances by one, and raises no error.                 *)
C15_NoopFrame ==
    [][(status = "running" /\ i < Len(code) /\ code[i + 1] \notin Instr) =>
          /\ i' = i + 1
          /\ status' = "running"
          /\ FrameTape]_vars

(* An ignored byte was dispatched on a tape that is no longer the initial  *)
(* one, and the run went on.                                               *)
C15_Witness ==
    /\ status = "running"
    /\ prev >= 0
    /\ code[prev + 1] \notin Instr
    /\ i = prev + 1
    /\ tape # TapeNew

(* C16: a run ends as Ok, left-boundary abort, invalid-program error or    *)
(* I/O error and nothing else; it ends as Ok exactly when the cursor has   *)
(* reached the program length; in a program without `[` and `]` every      *)
(* dispatch that does not abort advances the cursor by exactly one, so at  *)
(* most Len(code) bytes are dispatched.                                    *)
NoBrackets(c) == \A k \in 1..Len(c) : c[k] \notin {"[", "]"}

C16_State ==
    /\ status \in {"running", "ok", "panic", "invalid", "ioerr"}
    /\ status = "ok" => i = Len(code)
    /\ i = Len(code) => status \in {"running", "ok"}
    /\ NoBrackets(code) => status # "invalid" /\ prev \in {i - 1, i}

C16_Step ==
    /\ (status = "running" /\ i = Len(code)) => status' = "ok"
    /\ (status = "running" /\ i < Len(code)) => status' # "ok"
    /\ status # "running" => UNCHANGED vars
    /\ (NoBrackets(code) /\ status = "running" /\ i < Len(code)) =>
          \/ status' = "running" /\ i' = i + 1
          \/ status' \in {"panic", "ioerr"} /\ i' = i

C16_Outcomes == [](C16_State) /\ [][C16_Step]_vars

(* A bracket-free program of full length has been dispatched byte by byte  *)
(* and has ended normally.                                                 *)
C16_Witness ==
    /\ NoBrackets(code)
    /\ Len(code) = MaxLen
    /\ status = "ok"
    /\ prev = Len(code) - 1

(* C17: a `.` whose write succeeds appends exactly the byte at head to the *)
(* output and changes nothing else; a failed one appends nothing; no other *)
(* instruction changes the output, so the output only ever grows at its    *)
(* end; only `,` consumes input.                                           *)
C17_OutputFrame ==
    [][/\ AtByte(".") =>
            /\ tape' = tape
            /\ input' = input
            /\ \/ status' = "running" /\
                  output' = Append(output, tape.cells[tape.head + 1])
               \/ status' = "ioerr" /\ output' = output
       /\ ~AtByte(".") => output' = output
       /\ ~AtByte(",") => input' = input
       /\ Len(output') >= Len(output)
       /\ SubSeq(output', 1, Len(output)) = output]_vars

(* `.` has written a nonzero byte from a cell other than the first.        *)
C17_Witness ==
    /\ status = "running"
    /\ prev >= 0
    /\ code[prev + 1] = "."
    /\ i = prev + 1
    /\ tape.head > 0
    /\ Len(output) = 1
    /\ output[1] = tape.cells[tape.head + 1]
    /\ output[1] # tape.cells[1]

(* C18: the cursor is always within 0..Len(code), a byte is only read at a *)
(* cursor below Len(code), and the cursor a bracket jump leaves behind     *)
(* (target plus the advance) is within the program too.                    *)
C18_CursorInBounds ==
    /\ 0 <= i
    /\ i <= Len(code)
    /\ prev < Len(code)
    /\ (prev >= 0 /\ code[prev + 1] \in {"[", "]"} /\ status = "running") =>
          1 <= i /\ i <= Len(code)

(* A `[` on a zero cell has jumped and left the cursor on the last byte of *)
(* the program.                                                            *)
C18_Witness ==
    /\ status = "running"
    /\ prev >= 0
    /\ code[prev + 1] = "["
    /\ TapeIsZero(tape)
    /\ i # prev + 1
    /\ i = Len(code) - 1

(* C19: dispatching `[` or `]` leaves tape, head, input and output as they *)
(* were, whether it jumps, falls through or fails; only the cursor or the  *)
(* outcome changes.                                                        *)
C19_BracketFrame ==
    [][(AtByte("[") \/ AtByte("]")) =>
          /\ FrameTape
          /\ \/ status' = "running"
             \/ status' = "invalid" /\ i' = i]_vars

(* A `]` on a nonzero cell has jumped back with output already written.    *)
C19_Witness ==
    /\ status = "running"
    /\ prev >= 0
    /\ code[prev + 1] = "]"
    /\ i <= prev
    /\ ~TapeIsZero(tape)
    /\ output # <<>>

(* C20: the tape is exactly as long as 1 + the largest head index reached  *)
(* so far, and a cell that was never under the head when a `+`, `-` or `,` *)
(* was dispatched holds 0.                                                 *)
C20_LengthAndZeros ==
    /\ Len(tape.cells) = 1 + maxHead
    /\ tape.head <= maxHead
    /\ \A k \in 0..(Len(tape.cells) - 1) :
          k \notin touched => tape.cells[k + 1] = 0

(* The head went out to index 2, came back and changed cell 1: three       *)
(* cells, the head below its maximum, the cells never written still 0.     *)
C20_Witness ==
    /\ maxHead = 2
    /\ tape.head = 1
    /\ touched = {1}
    /\ Len(tape.cells) = 3
    /\ tape.cells[2] # 0
    /\ tape.cells[1] = 0
    /\ tape.cells[3] = 0
====
